---- MODULE Spec2Model ----
(***************************************************************************)
(* Model of ela-lib: the bulk orchestrator (BulkMigrator: fluent builder,  *)
(* pattern resolution, worker pool of parallelRun) and the dual-write      *)
(* gateway (ESGateway: URI classifier, slave mirroring, master forward).   *)
(*                                                                         *)
(* Index names, patterns and URI paths are sequences of one-character      *)
(* strings, so that prefix tests, "%s:%s" formatting, regular-expression   *)
(* matching and strings.Split are computed and not assumed.                *)
(***************************************************************************)
EXTENDS Integers, Sequences, FiniteSets, TLC

VARIABLES
    m,              \* the BulkMigrator the caller currently holds
    pc,             \* "build" | "run" | "done" (bulk), "gateway" in SpecGateway
    op,             \* name of the last BulkMigrator method called
    steps,          \* number of builder steps of the chain so far
    arg,            \* the pairs or the pattern the last builder step was given
    ret,            \* what the terminal operation returned: [err, result]
    ignoreSystemIndex, \* utils.GetCtxKeyIgnoreSystemIndex(m.ctx)
    stage,          \* pool: identity -> position of its task
    startCount,     \* pool: identity -> how often its callback was started
    outcome,        \* pool: identity -> result of the per-pair operation
    finishCount,    \* parallelRun: the atomic counter
    loaded,         \* pool: identity -> the two values read by finishCount.Load()
    log,            \* "task progress" entries in emission order
    diffMap,        \* identities stored in diffMap (Compare, SyncDiff)
    migrators,      \* parallelRun: identity -> the Migrator built for the pair
    gw,             \* state of one gateway request (SpecGateway)
    v6              \* state of one V6 adapter and its bulk buffer (SpecAdapter)

vars == <<m, pc, op, steps, arg, ret, ignoreSystemIndex, stage, startCount, outcome,
          finishCount, loaded, log, diffMap, migrators, gw, v6>>

bulkVars == <<m, pc, op, steps, arg, ret, ignoreSystemIndex, stage, startCount, outcome,
              finishCount, loaded, log, diffMap, migrators, v6>>

poolVars == <<stage, startCount, outcome, finishCount, loaded, log, diffMap, migrators>>

-----------------------------------------------------------------------------
(* Bounds *)

\* numeric builder arguments range over 0..MaxArg
MaxArg == 2
\* longest chain of builder steps before the terminal operation
MaxSteps == 3
\* longest argument list of one WithIndexPairs call
MaxPairArgs == 2

-----------------------------------------------------------------------------
(* Strings as character sequences *)

Str_logs1  == <<"l", "o", "g", "s", "-", "1">>
Str_logs2  == <<"l", "o", "g", "s", "-", "2">>
Str_system == <<".", "s", "y", "s">>
Str_backup == <<"b", "a", "k">>

HasPrefix(s, prefix) ==
    /\ Len(s) >= Len(prefix)
    /\ SubSeq(s, 1, Len(prefix)) = prefix

HasSuffix(s, suffix) ==
    /\ Len(s) >= Len(suffix)
    /\ SubSeq(s, Len(s) - Len(suffix) + 1, Len(s)) = suffix

-----------------------------------------------------------------------------
(* Defaults of the options *)

defaultParallelism     == 8
defaultScrollSize      == 1000
defaultScrollTime      == 5
defaultSliceSize       == 1
defaultBufferCount     == 4
defaultWriteParallel   == 4
defaultWriteSize       == 1000
defaultCompareParallel == 4

None == "nil"
NilIds == <<>>
EmptyMap == [k \in {} |-> 0]

NumArgs == 0..MaxArg
IdsArgs == {NilIds, <<"id-1">>}

-----------------------------------------------------------------------------
(* regexp.Match(pattern, []byte(index)) for the patterns used here: literal  *)
(* characters, "." and the postfix "*".  The match is unanchored.            *)

Pat_logs == <<"l", "o", "g", "s", "-", ".", "*">>
Pat_all  == <<".", "*">>
Pat_two  == <<"2">>
Pat_bad  == <<"*">>
Patterns == {Pat_logs, Pat_all, Pat_two, Pat_bad}

\* regexp.Compile succeeds: every "*" has an operand that is not itself a "*"
RegexpValid(pattern) ==
    \A i \in 1..Len(pattern) :
        pattern[i] = "*" => (i > 1 /\ pattern[i - 1] # "*")

CharMatch(c, x) == c = "." \/ c = x

RECURSIVE MatchHere(_, _, _, _)
MatchHere(pattern, i, s, j) ==
    IF i > Len(pattern) THEN TRUE
    ELSE IF i + 1 <= Len(pattern) /\ pattern[i + 1] = "*"
    THEN \E k \in j..(Len(s) + 1) :
            /\ \A x \in j..(k - 1) : CharMatch(pattern[i], s[x])
            /\ MatchHere(pattern, i + 2, s, k)
    ELSE /\ j <= Len(s)
         /\ CharMatch(pattern[i], s[j])
         /\ MatchHere(pattern, i + 1, s, j + 1)

RegexpMatch(pattern, s) ==
    \E j \in 1..(Len(s) + 1) : MatchHere(pattern, 1, s, j)

-----------------------------------------------------------------------------
(* BulkMigrator: construction and pair identities *)

\* the catalogue m.SourceES.GetIndexes() lists when it succeeds
GetIndexes == <<Str_logs1, Str_logs2, Str_system>>

IndexPair(source, target) == [SourceIndex |-> source, TargetIndex |-> target]

\* the pairs a caller passes to WithIndexPairs
PairArgs == {IndexPair(Str_logs1, Str_logs1), IndexPair(Str_logs1, Str_backup),
             IndexPair(Str_logs2, Str_logs2)}

PairArgLists ==
    UNION {[1..n -> PairArgs] : n \in 0..MaxPairArgs}

NewBulkMigratorWithES ==
    [SourceES        |-> "sourceES",
     TargetES        |-> "targetES",
     Parallelism     |-> defaultParallelism,
     IndexPairMap    |-> EmptyMap,
     Error           |-> None,
     ScrollSize      |-> defaultScrollSize,
     ScrollTime      |-> defaultScrollTime,
     SliceSize       |-> defaultSliceSize,
     BufferCount     |-> defaultBufferCount,
     WriteParallel   |-> defaultWriteParallel,
     WriteSize       |-> defaultWriteSize,
     Ids             |-> NilIds,
     CompareParallel |-> defaultCompareParallel]

getIndexPairKey(indexPair) ==
    indexPair.SourceIndex \o <<":">> \o indexPair.TargetIndex

\* variant: the new map replaces the old one
Assign_Replace(a, b) == b

\* lo.Assign: the union of the maps, the later map winning on a shared key
Assign(a, b) ==
    [k \in (DOMAIN a) \cup (DOMAIN b) |-> IF k \in DOMAIN b THEN b[k] ELSE a[k]]

\* the loop of WithIndexPairs: the first pair of each key is kept
RECURSIVE CollectPairs(_, _)
CollectPairs(indexPairs, acc) ==
    IF indexPairs = <<>> THEN acc
    ELSE LET indexPair    == Head(indexPairs)
             indexPairKey == getIndexPairKey(indexPair)
         IN  CollectPairs(Tail(indexPairs),
                IF indexPairKey \in DOMAIN acc
                THEN acc
                ELSE Assign(acc, [k \in {indexPairKey} |-> indexPair]))

WithIndexPairs(mm, indexPairs) ==
    IF mm.Error # None THEN mm
    ELSE LET newIndexPairsMap == CollectPairs(indexPairs, EmptyMap)
         IN  [SourceES        |-> mm.SourceES,
              TargetES        |-> mm.TargetES,
              Parallelism     |-> mm.Parallelism,
              IndexPairMap    |-> IF DOMAIN newIndexPairsMap # {}
                                  THEN Assign(mm.IndexPairMap, newIndexPairsMap)
                                  ELSE mm.IndexPairMap,
              Error           |-> mm.Error,
              ScrollSize      |-> mm.ScrollSize,
              ScrollTime      |-> mm.ScrollTime,
              SliceSize       |-> mm.SliceSize,
              BufferCount     |-> mm.BufferCount,
              WriteParallel   |-> mm.WriteParallel,
              WriteSize       |-> mm.WriteSize,
              Ids             |-> mm.Ids,
              CompareParallel |-> mm.CompareParallel]

\* variant: the latched error is not looked at
WithScrollSize_NoLatch(mm, scrollSize) ==
    [mm EXCEPT !.ScrollSize = IF scrollSize = 0 THEN defaultScrollSize ELSE scrollSize]

WithScrollSize(mm, scrollSize) ==
    IF mm.Error # None THEN mm
    ELSE LET v == IF scrollSize = 0 THEN defaultScrollSize ELSE scrollSize
         IN  [SourceES        |-> mm.SourceES,
               TargetES        |-> mm.TargetES,
               Parallelism     |-> mm.Parallelism,
               IndexPairMap    |-> mm.IndexPairMap,
               Error           |-> mm.Error,
               ScrollSize      |-> v,
               ScrollTime      |-> mm.ScrollTime,
               SliceSize       |-> mm.SliceSize,
               BufferCount     |-> mm.BufferCount,
               WriteParallel   |-> mm.WriteParallel,
               WriteSize       |-> mm.WriteSize,
               Ids             |-> mm.Ids,
               CompareParallel |-> mm.CompareParallel]

WithScrollTime(mm, scrollTime) ==
    IF mm.Error # None THEN mm
    ELSE LET v == IF scrollTime = 0 THEN defaultScrollTime ELSE scrollTime
         IN  [SourceES        |-> mm.SourceES,
               TargetES        |-> mm.TargetES,
               Parallelism     |-> mm.Parallelism,
               IndexPairMap    |-> mm.IndexPairMap,
               Error           |-> mm.Error,
               ScrollSize      |-> mm.ScrollSize,
               ScrollTime      |-> v,
               SliceSize       |-> mm.SliceSize,
               BufferCount     |-> mm.BufferCount,
               WriteParallel   |-> mm.WriteParallel,
               WriteSize       |-> mm.WriteSize,
               Ids             |-> mm.Ids,
               CompareParallel |-> mm.CompareParallel]

WithSliceSize(mm, sliceSize) ==
    IF mm.Error # None THEN mm
    ELSE LET v == IF sliceSize = 0 THEN defaultSliceSize ELSE sliceSize
         IN  [SourceES        |-> mm.SourceES,
               TargetES        |-> mm.TargetES,
               Parallelism     |-> mm.Parallelism,
               IndexPairMap    |-> mm.IndexPairMap,
               Error           |-> mm.Error,
               ScrollSize      |-> mm.ScrollSize,
               ScrollTime      |-> mm.ScrollTime,
               SliceSize       |-> v,
               BufferCount     |-> mm.BufferCount,
               WriteParallel   |-> mm.WriteParallel,
               WriteSize       |-> mm.WriteSize,
               Ids             |-> mm.Ids,
               CompareParallel |-> mm.CompareParallel]

WithBufferCount(mm, bufferCount) ==
    IF mm.Error # None THEN mm
    ELSE LET v == IF bufferCount = 0 THEN defaultBufferCount ELSE bufferCount
         IN  [SourceES        |-> mm.SourceES,
               TargetES        |-> mm.TargetES,
               Parallelism     |-> mm.Parallelism,
               IndexPairMap    |-> mm.IndexPairMap,
               Error           |-> mm.Error,
               ScrollSize      |-> mm.ScrollSize,
               ScrollTime      |-> mm.ScrollTime,
               SliceSize       |-> mm.SliceSize,
               BufferCount     |-> v,
               WriteParallel   |-> mm.WriteParallel,
               WriteSize       |-> mm.WriteSize,
               Ids             |-> mm.Ids,
               CompareParallel |-> mm.CompareParallel]

WithWriteParallel(mm, writeParallel) ==
    IF mm.Error # None THEN mm
    ELSE LET v == IF writeParallel = 0 THEN defaultWriteParallel ELSE writeParallel
         IN  [SourceES        |-> mm.SourceES,
               TargetES        |-> mm.TargetES,
               Parallelism     |-> mm.Parallelism,
               IndexPairMap    |-> mm.IndexPairMap,
               Error           |-> mm.Error,
               ScrollSize      |-> mm.ScrollSize,
               ScrollTime      |-> mm.ScrollTime,
               SliceSize       |-> mm.SliceSize,
               BufferCount     |-> mm.BufferCount,
               WriteParallel   |-> v,
               WriteSize       |-> mm.WriteSize,
               Ids             |-> mm.Ids,
               CompareParallel |-> mm.CompareParallel]

WithWriteSize(mm, writeSize) ==
    IF mm.Error # None THEN mm
    ELSE LET v == IF writeSize = 0 THEN defaultWriteSize ELSE writeSize
         IN  [SourceES        |-> mm.SourceES,
               TargetES        |-> mm.TargetES,
               Parallelism     |-> mm.Parallelism,
               IndexPairMap    |-> mm.IndexPairMap,
               Error           |-> mm.Error,
               ScrollSize      |-> mm.ScrollSize,
               ScrollTime      |-> mm.ScrollTime,
               SliceSize       |-> mm.SliceSize,
               BufferCount     |-> mm.BufferCount,
               WriteParallel   |-> mm.WriteParallel,
               WriteSize       |-> v,
               Ids             |-> mm.Ids,
               CompareParallel |-> mm.CompareParallel]

\* the composite literal names neither WriteSize nor CompareParallel: both are 0
WithParallelism(mm, parallelism) ==
    IF mm.Error # None THEN mm
    ELSE LET v == IF parallelism = 0 THEN defaultParallelism ELSE parallelism
         IN  [SourceES        |-> mm.SourceES,
               TargetES        |-> mm.TargetES,
               Parallelism     |-> v,
               IndexPairMap    |-> mm.IndexPairMap,
               Error           |-> mm.Error,
               ScrollSize      |-> mm.ScrollSize,
               ScrollTime      |-> mm.ScrollTime,
               SliceSize       |-> mm.SliceSize,
               BufferCount     |-> mm.BufferCount,
               WriteParallel   |-> mm.WriteParallel,
               WriteSize       |-> 0,
               Ids             |-> mm.Ids,
               CompareParallel |-> 0]

\* the literal stores the identifier compareParallel, which is not the parameter
\* compareParallelism (after its zero check) and is bound nowhere in this file:
\* its value is an input of the model; WriteSize is not named and is 0
WithCompareParallelism(mm, compareParallelism, compareParallel) ==
    IF mm.Error # None THEN mm
    ELSE [SourceES        |-> mm.SourceES,
           TargetES        |-> mm.TargetES,
           Parallelism     |-> mm.Parallelism,
           IndexPairMap    |-> mm.IndexPairMap,
           Error           |-> mm.Error,
           ScrollSize      |-> mm.ScrollSize,
           ScrollTime      |-> mm.ScrollTime,
           SliceSize       |-> mm.SliceSize,
           BufferCount     |-> mm.BufferCount,
           WriteParallel   |-> mm.WriteParallel,
           WriteSize       |-> 0,
           Ids             |-> mm.Ids,
           CompareParallel |-> compareParallel]

\* the literal does not name CompareParallel: it is 0
WithIds(mm, ids) ==
    IF mm.Error # None THEN mm
    ELSE [SourceES        |-> mm.SourceES,
           TargetES        |-> mm.TargetES,
           Parallelism     |-> mm.Parallelism,
           IndexPairMap    |-> mm.IndexPairMap,
           Error           |-> mm.Error,
           ScrollSize      |-> mm.ScrollSize,
           ScrollTime      |-> mm.ScrollTime,
           SliceSize       |-> mm.SliceSize,
           BufferCount     |-> mm.BufferCount,
           WriteParallel   |-> mm.WriteParallel,
           WriteSize       |-> mm.WriteSize,
           Ids             |-> ids,
           CompareParallel |-> 0]

\* variant: system indexes are not skipped
filterIndexes_KeepSystem(pattern, ignoreSystem, listOk) ==
    IF ~listOk THEN [err |-> "get indexes failed", indexes |-> <<>>]
    ELSE IF ~RegexpValid(pattern)
    THEN [err |-> "error parsing regexp", indexes |-> <<>>]
    ELSE [err     |-> None,
          indexes |-> SelectSeq(GetIndexes, LAMBDA index : RegexpMatch(pattern, index))]

\* filterIndexes: [err, indexes].  listOk: GetIndexes succeeded.  The pattern is
\* compiled by regexp.Match inside the loop, so an invalid pattern is reported
\* only when some index survives the system-index filter.
filterIndexes(pattern, ignoreSystem, listOk) ==
    IF ~listOk THEN [err |-> "get indexes failed", indexes |-> <<>>]
    ELSE LET kept == SelectSeq(GetIndexes,
                        LAMBDA index : ~(ignoreSystem /\ HasPrefix(index, <<".">>)))
         IN  IF kept # <<>> /\ ~RegexpValid(pattern)
             THEN [err |-> "error parsing regexp", indexes |-> <<>>]
             ELSE [err     |-> None,
                   indexes |-> SelectSeq(kept, LAMBDA index : RegexpMatch(pattern, index))]

\* the loop of WithPatternIndexes: pairs (index, index) whose key is not yet
\* in the receiver's IndexPairMap
RECURSIVE CollectPatternPairs(_, _, _)
CollectPatternPairs(indexes, old, acc) ==
    IF indexes = <<>> THEN acc
    ELSE LET indexPair       == IndexPair(Head(indexes), Head(indexes))
             newIndexPairKey == getIndexPairKey(indexPair)
         IN  CollectPatternPairs(Tail(indexes), old,
                IF newIndexPairKey \in DOMAIN old
                THEN acc
                ELSE Assign(acc, [k \in {newIndexPairKey} |-> indexPair]))

\* the literal names neither WriteSize nor CompareParallel: both are 0
WithPatternIndexes(mm, pattern, ignoreSystem, listOk) ==
    IF mm.Error # None THEN mm
    ELSE LET newBulkMigrator == [SourceES        |-> mm.SourceES,
                                  TargetES        |-> mm.TargetES,
                                  Parallelism     |-> mm.Parallelism,
                                  IndexPairMap    |-> mm.IndexPairMap,
                                  Error           |-> mm.Error,
                                  ScrollSize      |-> mm.ScrollSize,
                                  ScrollTime      |-> mm.ScrollTime,
                                  SliceSize       |-> mm.SliceSize,
                                  BufferCount     |-> mm.BufferCount,
                                  WriteParallel   |-> mm.WriteParallel,
                                  WriteSize       |-> 0,
                                  Ids             |-> mm.Ids,
                                  CompareParallel |-> 0]
             filtered == filterIndexes(pattern, ignoreSystem, listOk)
             newIndexPairsMap ==
                 CollectPatternPairs(filtered.indexes, newBulkMigrator.IndexPairMap, EmptyMap)
         IN  IF filtered.err # None
             THEN [newBulkMigrator EXCEPT !.Error = filtered.err]
             ELSE IF DOMAIN newIndexPairsMap # {}
             THEN [newBulkMigrator EXCEPT
                      !.IndexPairMap = Assign(newBulkMigrator.IndexPairMap, newIndexPairsMap)]
             ELSE newBulkMigrator


-----------------------------------------------------------------------------
(* The caller's chain of builder steps.  Each step replaces the BulkMigrator *)
(* the caller holds by the one the method returns.                           *)

NoArg == <<>>

BuilderStep(name, a, new) ==
    /\ pc = "build"
    /\ steps < MaxSteps
    /\ m' = new
    /\ op' = name
    /\ arg' = a
    /\ steps' = steps + 1
    /\ UNCHANGED <<pc, ret, ignoreSystemIndex, poolVars, gw, v6>>

StepWithIndexPairs ==
    \E indexPairs \in PairArgLists :
        BuilderStep("WithIndexPairs", indexPairs, WithIndexPairs(m, indexPairs))

StepWithPatternIndexes ==
    \E pattern \in Patterns, listOk \in BOOLEAN :
        BuilderStep("WithPatternIndexes", pattern,
                    WithPatternIndexes(m, pattern, ignoreSystemIndex, listOk))

StepWithParallelism ==
    \E v \in NumArgs : BuilderStep("WithParallelism", NoArg, WithParallelism(m, v))

StepWithScrollSize ==
    \E v \in NumArgs : BuilderStep("WithScrollSize", NoArg, WithScrollSize(m, v))

StepWithScrollTime ==
    \E v \in NumArgs : BuilderStep("WithScrollTime", NoArg, WithScrollTime(m, v))

StepWithSliceSize ==
    \E v \in NumArgs : BuilderStep("WithSliceSize", NoArg, WithSliceSize(m, v))

StepWithBufferCount ==
    \E v \in NumArgs : BuilderStep("WithBufferCount", NoArg, WithBufferCount(m, v))

StepWithWriteParallel ==
    \E v \in NumArgs : BuilderStep("WithWriteParallel", NoArg, WithWriteParallel(m, v))

StepWithWriteSize ==
    \E v \in NumArgs : BuilderStep("WithWriteSize", NoArg, WithWriteSize(m, v))

StepWithIds ==
    \E ids \in IdsArgs : BuilderStep("WithIds", NoArg, WithIds(m, ids))

StepWithCompareParallelism ==
    \E v \in NumArgs, compareParallel \in NumArgs :
        BuilderStep("WithCompareParallelism", NoArg,
                    WithCompareParallelism(m, v, compareParallel))

-----------------------------------------------------------------------------
(* Terminal operations and the pool of parallelRun *)

TerminalOps == {"Sync", "SyncDiff", "Compare", "CopyIndexSettings"}
DiffOps     == {"SyncDiff", "Compare"}

NoResult == [err |-> None, result |-> {}]

\* variant: the arguments of pond.New exchanged
poolMaxWorkers_QueueLength(mm) == Cardinality(DOMAIN mm.IndexPairMap)

\* pond.New(cast.ToInt(m.Parallelism), len(m.IndexPairMap)): the first argument
\* is the number of workers, the second the capacity of the task queue
poolMaxWorkers(mm) == mm.Parallelism

\* tasks whose worker is occupied: from the start of the submitted function
\* until its last statement (the progress log) has run
Busy == {k \in DOMAIN stage : stage[k] \notin {"queued", "done"}}

\* identities whose per-pair callback is executing
Running == {k \in DOMAIN stage : stage[k] = "callback"}

\* NewMigrator(ctx, sourceES, targetES): the per-pair configuration with the
\* defaults of the options
NewMigrator(sourceES, targetES) ==
    [SourceES        |-> sourceES,
     TargetES        |-> targetES,
     IndexPair       |-> IndexPair(<<>>, <<>>),
     ScrollSize      |-> defaultScrollSize,
     ScrollTime      |-> defaultScrollTime,
     SliceSize       |-> defaultSliceSize,
     BufferCount     |-> defaultBufferCount,
     WriteParallel   |-> defaultWriteParallel,
     WriteSize       |-> defaultWriteSize,
     Ids             |-> NilIds,
     CompareParallel |-> defaultCompareParallel]

\* a builder method of the Migrator: a copy with the named field set
MigratorWith(migrator, field, value) == [migrator EXCEPT ![field] = value]

\* lines 975-983: the Migrator parallelRun builds for one pair
newMigrator(mm, indexPair) ==
    LET m0 == NewMigrator(mm.SourceES, mm.TargetES)
        m1 == MigratorWith(m0, "IndexPair", indexPair)
        m2 == MigratorWith(m1, "ScrollSize", mm.ScrollSize)
        m3 == MigratorWith(m2, "ScrollTime", mm.ScrollTime)
        m4 == MigratorWith(m3, "SliceSize", mm.SliceSize)
        m5 == MigratorWith(m4, "BufferCount", mm.BufferCount)
        m6 == MigratorWith(m5, "WriteParallel", mm.WriteParallel)
        m7 == MigratorWith(m6, "WriteSize", mm.WriteSize)
    IN  MigratorWith(m7, "Ids", mm.Ids)

\* Sync, SyncDiff, Compare, CopyIndexSettings up to the end of the submit loop:
\* a latched error is returned at once; otherwise one task per entry of
\* IndexPairMap is submitted to a fresh pool
TerminalCall(name) ==
    /\ pc = "build"
    /\ op' = name
    /\ arg' = NoArg
    /\ IF m.Error # None
       THEN /\ pc' = "done"
            /\ ret' = [err |-> m.Error, result |-> {}]
            /\ UNCHANGED poolVars
       ELSE /\ pc' = "run"
            /\ ret' = ret
            /\ stage' = [k \in DOMAIN m.IndexPairMap |-> "queued"]
            /\ startCount' = [k \in DOMAIN m.IndexPairMap |-> 0]
            /\ outcome' = [k \in DOMAIN m.IndexPairMap |-> "pending"]
            /\ loaded' = [k \in DOMAIN m.IndexPairMap |-> [ratio |-> 0, count |-> 0]]
            /\ finishCount' = 0
            /\ log' = <<>>
            /\ diffMap' = {}
            /\ migrators' = [k \in DOMAIN m.IndexPairMap |->
                                 newMigrator(m, m.IndexPairMap[k])]
    /\ UNCHANGED <<m, steps, ignoreSystemIndex, gw, v6>>

CallTerminal == \E name \in TerminalOps : TerminalCall(name)

\* a pool worker takes a queued task and calls callback(newMigrator)
TaskStart(k) ==
    /\ pc = "run"
    /\ stage[k] = "queued"
    /\ Cardinality(Busy) < poolMaxWorkers(m)
    /\ stage' = [stage EXCEPT ![k] = "callback"]
    /\ startCount' = [startCount EXCEPT ![k] = @ + 1]
    /\ UNCHANGED <<m, pc, op, steps, arg, ret, ignoreSystemIndex, outcome, finishCount,
                   loaded, log, diffMap, migrators,
                   gw, v6>>

\* what the per-pair operation of the Migrator can yield
Outcomes(name) == IF name \in DiffOps THEN {"nodiff", "diff", "err"} ELSE {"ok", "err"}

\* variant: the DiffResult is stored whenever the per-pair operation
\* succeeded, without the test of HasDiff()
CallbackReturn_NoHasDiff(k, o) ==
    /\ pc = "run"
    /\ stage[k] = "callback"
    /\ stage' = [stage EXCEPT ![k] = "returned"]
    /\ outcome' = [outcome EXCEPT ![k] = o]
    /\ diffMap' = IF op \in DiffOps /\ o # "err"
                  THEN diffMap \cup {getIndexPairKey(migrators[k].IndexPair)}
                  ELSE diffMap
    /\ UNCHANGED <<m, pc, op, steps, arg, ret, ignoreSystemIndex, startCount, finishCount,
                   loaded, log, migrators,
                   gw, v6>>

\* the callback returns: an error is logged, and a DiffResult with HasDiff() is
\* stored in diffMap under the key of the Migrator's pair
CallbackReturn(k, o) ==
    /\ pc = "run"
    /\ stage[k] = "callback"
    /\ stage' = [stage EXCEPT ![k] = "returned"]
    /\ outcome' = [outcome EXCEPT ![k] = o]
    /\ diffMap' = IF op \in DiffOps /\ o = "diff"
                  THEN diffMap \cup {getIndexPairKey(migrators[k].IndexPair)}
                  ELSE diffMap
    /\ UNCHANGED <<m, pc, op, steps, arg, ret, ignoreSystemIndex, startCount, finishCount,
                   loaded, log, migrators,
                   gw, v6>>

\* finishCount.Add(1)
FinishAdd(k) ==
    /\ pc = "run"
    /\ stage[k] = "returned"
    /\ stage' = [stage EXCEPT ![k] = "added"]
    /\ finishCount' = finishCount + 1
    /\ UNCHANGED <<m, pc, op, steps, arg, ret, ignoreSystemIndex, startCount, outcome,
                   loaded, log, diffMap, migrators,
                   gw, v6>>

\* the first finishCount.Load(), the numerator of the ratio
LoadRatio(k) ==
    /\ pc = "run"
    /\ stage[k] = "added"
    /\ stage' = [stage EXCEPT ![k] = "loaded1"]
    /\ loaded' = [loaded EXCEPT ![k].ratio = finishCount]
    /\ UNCHANGED <<m, pc, op, steps, arg, ret, ignoreSystemIndex, startCount, outcome,
                   finishCount, log, diffMap, migrators,
                   gw, v6>>

\* the second finishCount.Load(), the finished count
LoadCount(k) ==
    /\ pc = "run"
    /\ stage[k] = "loaded1"
    /\ stage' = [stage EXCEPT ![k] = "loaded2"]
    /\ loaded' = [loaded EXCEPT ![k].count = finishCount]
    /\ UNCHANGED <<m, pc, op, steps, arg, ret, ignoreSystemIndex, startCount, outcome,
                   finishCount, log, diffMap, migrators,
                   gw, v6>>

\* Infof("task progress %0.4f (%d, %d)", ratio, finished, total) with the
\* arguments evaluated before; the task function ends and its temporaries go
EmitProgress(k) ==
    /\ pc = "run"
    /\ stage[k] = "loaded2"
    /\ stage' = [stage EXCEPT ![k] = "done"]
    /\ log' = Append(log, [ratio    |-> <<loaded[k].ratio, Cardinality(DOMAIN m.IndexPairMap)>>,
                           finished |-> loaded[k].count,
                           total    |-> Cardinality(DOMAIN m.IndexPairMap)])
    /\ loaded' = [loaded EXCEPT ![k] = [ratio |-> 0, count |-> 0]]
    /\ UNCHANGED <<m, pc, op, steps, arg, ret, ignoreSystemIndex, startCount, outcome,
                   finishCount, diffMap, migrators,
                   gw, v6>>

\* variant: the pool is stopped without waiting for the tasks
StopAndWait_NoWait == TRUE

\* pool.StopAndWait() returns when every submitted task has run to its end
StopAndWait == \A k \in DOMAIN stage : stage[k] = "done"

\* the rest of the terminal operation: the diff operations copy diffMap into
\* the result; every operation returns a nil error
TerminalReturn ==
    /\ pc = "run"
    /\ StopAndWait
    /\ pc' = "done"
    /\ ret' = [err |-> None, result |-> IF op \in DiffOps THEN diffMap ELSE {}]
    /\ UNCHANGED <<m, op, steps, arg, ignoreSystemIndex, poolVars, gw, v6>>

PoolStep ==
    \E k \in DOMAIN stage :
        \/ TaskStart(k)
        \/ \E o \in Outcomes(op) : CallbackReturn(k, o)
        \/ FinishAdd(k)
        \/ LoadRatio(k)
        \/ LoadCount(k)
        \/ EmitProgress(k)

-----------------------------------------------------------------------------
(* Specifications of the bulk orchestrator *)

NoGateway == [pc |-> "off"]
NoAdapter == [pc |-> "off"]

InitBulk(flags) ==
    /\ m = NewBulkMigratorWithES
    /\ pc = "build"
    /\ op = "NewBulkMigratorWithES"
    /\ steps = 0
    /\ arg = NoArg
    /\ ret = NoResult
    /\ ignoreSystemIndex \in flags
    /\ stage = EmptyMap
    /\ startCount = EmptyMap
    /\ outcome = EmptyMap
    /\ loaded = EmptyMap
    /\ finishCount = 0
    /\ log = <<>>
    /\ diffMap = {}
    /\ migrators = EmptyMap
    /\ gw = NoGateway
    /\ v6 = NoAdapter

Init == InitBulk(BOOLEAN)

\* the flag is read by WithPatternIndexes only; the spec's default is true
InitRun == InitBulk({TRUE})

\* every chain of builder steps, up to the call of a terminal operation
Next ==
    \/ StepWithIndexPairs
    \/ StepWithPatternIndexes
    \/ StepWithParallelism
    \/ StepWithScrollSize
    \/ StepWithScrollTime
    \/ StepWithSliceSize
    \/ StepWithBufferCount
    \/ StepWithWriteParallel
    \/ StepWithWriteSize
    \/ StepWithIds
    \/ StepWithCompareParallelism
    \/ CallTerminal

Spec == Init /\ [][Next]_vars

\* the terminal operations in full: the chains that decide the pool (its width
\* and its tasks), then the pool's workers in every interleaving
NextRun ==
    \/ StepWithIndexPairs
    \/ StepWithParallelism
    \/ CallTerminal
    \/ PoolStep
    \/ TerminalReturn

SpecRun == InitRun /\ [][NextRun]_vars


-----------------------------------------------------------------------------
(* ESGateway: URI paths *)

Seg_i        == <<"i">>
Seg_t        == <<"t">>
Seg_1        == <<"1">>
Seg_create   == <<"_", "c", "r", "e", "a", "t", "e">>
Seg_update   == <<"_", "u", "p", "d", "a", "t", "e">>
Seg_search   == <<"_", "s", "e", "a", "r", "c", "h">>
Seg_mapping  == <<"_", "m", "a", "p", "p", "i", "n", "g">>
Seg_settings == <<"_", "s", "e", "t", "t", "i", "n", "g", "s">>
Seg_bulk     == <<"_", "b", "u", "l", "k">>
Seg_cluster  == <<"_", "c", "l", "u", "s", "t", "e", "r">>
Seg_health   == <<"h", "e", "a", "l", "t", "h">>
Seg_plain    == <<"s", "e", "t", "t", "i", "n", "g", "s">>

\* strings.Join(segments, "/")
RECURSIVE Join(_)
Join(segments) ==
    IF segments = <<>> THEN <<>>
    ELSE IF Len(segments) = 1 THEN segments[1]
    ELSE segments[1] \o <<"/">> \o Join(Tail(segments))

\* strings.Split(s, "/")
RECURSIVE Split(_)
Split(s) ==
    IF \A i \in 1..Len(s) : s[i] # "/" THEN <<s>>
    ELSE LET i == CHOOSE i \in 1..Len(s) :
                      s[i] = "/" /\ \A j \in 1..(i - 1) : s[j] # "/"
         IN  <<SubSeq(s, 1, i - 1)>> \o Split(SubSeq(s, i + 1, Len(s)))

\* a path below the root: "/" followed by the segments joined by "/"
Path(segments) == <<"/">> \o Join(segments)

UriPaths ==
    {Path(<<>>),                                   \* /
     Path(<<Seg_i>>),                              \* /i
     Path(<<Seg_i, Seg_1>>),                       \* /i/1
     Path(<<Seg_i, Seg_t, Seg_1>>),                \* /i/t/1
     Path(<<Seg_i, Seg_t, Seg_1, Seg_create>>),    \* /i/t/1/_create
     Path(<<Seg_i, Seg_1, Seg_create>>),           \* /i/1/_create
     Path(<<Seg_i, Seg_t, Seg_1, Seg_update>>),    \* /i/t/1/_update
     Path(<<Seg_i, Seg_search>>),                  \* /i/_search
     Path(<<Seg_i, Seg_mapping>>),                 \* /i/_mapping
     Path(<<Seg_i, Seg_t, Seg_mapping>>),          \* /i/t/_mapping
     Path(<<Seg_i, Seg_settings>>),                \* /i/_settings
     Path(<<Seg_bulk>>),                           \* /_bulk
     Path(<<Seg_cluster, Seg_health>>),            \* /_cluster/health
     Path(<<Seg_cluster, Seg_plain>>),             \* /_cluster/settings
     Path(<<Seg_create>>),                         \* /_create
     <<"*">>,                                      \* the request target "*"
     <<>>}                                         \* absolute-form target, empty path

HttpActions == {"GET", "POST", "PUT", "DELETE"}

Version_5 == <<"5", ".", "6">>
Version_6 == <<"6", ".", "8">>
Version_7 == <<"7", ".", "1", "0">>
ClusterVersions == {Version_5, Version_6, Version_7}

\* es.ClusterVersionGte7: the typeless family, major version 7 and above
ClusterVersionGte7(clusterVersion) ==
    ~(HasPrefix(clusterVersion, <<"5", ".">>) \/ HasPrefix(clusterVersion, <<"6", ".">>))

-----------------------------------------------------------------------------
(* ESGateway.parseUriPath *)

RequestActionNone == "none"

MutatingActions ==
    {"UpsertDocument", "CreateDocument", "UpdateDocument", "DeleteDocument",
     "Bulk", "CreateIndex", "DeleteIndex", "UpdateIndexMapping", "UpdateIndexSettings"}

\* the value of "var result es.UriPathParserResult" after lines 95-96
NewResult(httpAction, uriPath) ==
    [HttpAction    |-> httpAction,
     Uri           |-> uriPath,
     RequestAction |-> RequestActionNone,
     Index         |-> <<>>,
     IndexType     |-> <<>>,
     DocumentId    |-> <<>>,
     err           |-> None,
     panic         |-> FALSE]

\* strings.Join(append(segments[:2], segments[3:]...), "/")
DropType(segments) ==
    Join(SubSeq(segments, 1, 2) \o SubSeq(segments, 4, Len(segments)))

\* the first matching alternative; otherwise the default
Pick(httpAction, table, default) ==
    IF httpAction \in DOMAIN table THEN table[httpAction] ELSE default

\* the body shared by the _create and _update branches; segments[1] of the
\* source is segments[2] here, and is out of range for a path without "/"
DocumentBranch(result, segments, needType, typedLen, action) ==
    IF Len(segments) < 2 THEN [result EXCEPT !.panic = TRUE]
    ELSE LET r0 == [result EXCEPT !.RequestAction = action, !.Index = segments[2]]
         IN  IF Len(segments) = typedLen
             THEN [r0 EXCEPT !.IndexType  = segments[3],
                             !.DocumentId = segments[4],
                             !.Uri        = IF needType THEN @ ELSE DropType(segments)]
             ELSE IF Len(segments) = typedLen - 1
             THEN [r0 EXCEPT !.DocumentId = segments[3]]
             ELSE r0

\* the body shared by the _search and _mapping branches
IndexBranch(result, segments, needType, action) ==
    IF Len(segments) < 2 THEN [result EXCEPT !.panic = TRUE]
    ELSE LET r0 == [result EXCEPT !.RequestAction = action, !.Index = segments[2]]
         IN  IF Len(segments) = 4
             THEN [r0 EXCEPT !.IndexType = segments[3],
                             !.Uri       = IF needType THEN @ ELSE DropType(segments)]
             ELSE r0

\* strings.HasSuffix("/_create", uriPath): the arguments as the source passes them
SuffixOfLiteral(segment, uriPath) == HasSuffix(<<"/">> \o segment, uriPath)

PathEndsWith(uriPath, segment) == HasSuffix(uriPath, <<"/">> \o segment)

parseUriPath(httpAction, uriPath, clusterVersion) ==
    LET needType == HasPrefix(clusterVersion, <<"5", ".">>)
                        \/ HasPrefix(clusterVersion, <<"6", ".">>)
        result   == NewResult(httpAction, uriPath)
        segments == Split(uriPath)
    IN  IF uriPath = <<"/">> /\ httpAction = "GET"
        THEN [result EXCEPT !.RequestAction = "GetInfo"]
        ELSE IF SuffixOfLiteral(Seg_create, uriPath)
        THEN DocumentBranch(result, segments, needType, 5,
                Pick(httpAction, [POST |-> "CreateDocument"], RequestActionNone))
        ELSE IF SuffixOfLiteral(Seg_update, uriPath)
        THEN DocumentBranch(result, segments, needType, 5,
                Pick(httpAction, [POST |-> "UpdateDocument"], RequestActionNone))
        ELSE IF SuffixOfLiteral(Seg_search, uriPath)
        THEN IndexBranch(result, segments, needType,
                Pick(httpAction, [GET |-> "Search", POST |-> "SearchLimit"],
                     RequestActionNone))
        ELSE IF uriPath = Path(<<Seg_cluster, Seg_health>>)
        THEN [result EXCEPT !.RequestAction =
                Pick(httpAction, [GET |-> "ClusterHealth"], RequestActionNone)]
        ELSE IF uriPath = Path(<<Seg_cluster, Seg_plain>>)
        THEN [result EXCEPT !.RequestAction =
                Pick(httpAction, [GET |-> "ClusterSettings"], RequestActionNone)]
        ELSE IF PathEndsWith(uriPath, Seg_mapping)
        THEN IndexBranch(result, segments, needType,
                Pick(httpAction, [GET |-> "GetIndexMapping", PUT |-> "UpdateIndexMapping"],
                     RequestActionNone))
        ELSE IF PathEndsWith(uriPath, Seg_settings)
        THEN [result EXCEPT
                !.RequestAction =
                    Pick(httpAction, [GET |-> "GetIndexSettings",
                                      PUT |-> "UpdateIndexSettings"], RequestActionNone),
                !.Index = segments[2]]
        ELSE IF PathEndsWith(uriPath, Seg_bulk)
        THEN [result EXCEPT !.RequestAction = "Bulk"]
        ELSE IF Len(segments) = 2
        THEN [result EXCEPT
                !.RequestAction =
                    Pick(httpAction, [GET |-> "GetIndex", PUT |-> "CreateIndex",
                                      DELETE |-> "DeleteIndex"], RequestActionNone),
                !.Index = segments[2]]
        ELSE IF Len(segments) >= 3
        THEN DocumentBranch(result, segments, needType, 4,
                Pick(httpAction, [GET |-> "Document", PUT |-> "UpsertDocument",
                                  DELETE |-> "DeleteDocument"], RequestActionNone))
        ELSE [result EXCEPT !.err = "invalid uri"]


-----------------------------------------------------------------------------
(* Request bodies.  A JSON object is [t |-> "obj", f |-> fields]; a string   *)
(* is [t |-> "str", v |-> ...]; NoBody is a body of no bytes.                *)

JObj(fields) == [t |-> "obj", f |-> fields]
JStr(v)      == [t |-> "str", v |-> v]
NoBody       == [t |-> "empty"]
JNum(n)      == [t |-> "num", n |-> n]
JNull        == [t |-> "null"]
JArr         == [t |-> "arr"]

IsObj(j) == j.t = "obj"
Has(j, key) == IsObj(j) /\ key \in DOMAIN j.f

\* delete(obj, key)
Without(j, key) == JObj([k \in (DOMAIN j.f) \ {key} |-> j.f[k]])
\* obj[key] = value
With(j, key, value) ==
    JObj([k \in (DOMAIN j.f) \cup {key} |-> IF k = key THEN value ELSE j.f[k]])

Json_properties == JObj([title |-> JObj([type |-> JStr("text")])])

\* {"title": "a"}: a document, no "mappings"
Body_document == JObj([title |-> JStr("a")])
\* {"mappings": {"book": {"properties": P, "dynamic": "strict"}}}
Body_typed ==
    JObj([mappings |-> JObj([book |-> JObj([properties |-> Json_properties,
                                           dynamic    |-> JStr("strict")])])])
\* {"mappings": {"properties": P}}
Body_typeless == JObj([mappings |-> JObj([properties |-> Json_properties])])
\* {"mappings": {"properties": P, "dynamic": "strict"}}
Body_typelessMeta ==
    JObj([mappings |-> JObj([properties |-> Json_properties,
                            dynamic    |-> JStr("strict")])])

RequestBodies == {NoBody, Body_document, Body_typed, Body_typeless, Body_typelessMeta}

-----------------------------------------------------------------------------
(* ESGateway.modifyMappings, after io.ReadAll has returned `body`.           *)
(* The result is [err, panic, body]: body is what c.Request.Body is replaced *)
(* by on success.  typeName is the key the range over the map stops at: Go   *)
(* iterates a map in an unspecified order, so it is any key but "properties".*)

TypeNames(mappings) ==
    IF (DOMAIN mappings.f) \ {"properties"} = {}
    THEN {""}
    ELSE (DOMAIN mappings.f) \ {"properties"}

rewriteMappings(body, typeName) ==
    LET fail(e) == [err |-> e, panic |-> FALSE, body |-> NoBody]
    IN  IF ~IsObj(body) THEN fail("unmarshal")
        ELSE IF ~Has(body, "mappings") \/ ~IsObj(body.f["mappings"])
        THEN fail("invalid mappings format")
        ELSE LET mappings == body.f["mappings"]
             IN  IF typeName # ""
                 THEN IF ~IsObj(mappings.f[typeName])
                      THEN [err |-> None, panic |-> TRUE, body |-> NoBody]
                      ELSE IF ~Has(mappings.f[typeName], "properties")
                      THEN fail("invalid properties format")
                      ELSE [err   |-> None,
                            panic |-> FALSE,
                            body  |-> With(body, "mappings",
                                        Without(With(mappings, "properties",
                                                     mappings.f[typeName].f["properties"]),
                                                typeName))]
                 ELSE IF ~Has(mappings, "properties")
                 THEN fail("invalid properties format")
                 ELSE [err   |-> None,
                       panic |-> FALSE,
                       body  |-> With(body, "mappings",
                                   Without(With(mappings, "doc",
                                                JObj([properties |-> mappings.f["properties"]])),
                                           "properties"))]

\* modifyMappings returns nil at once when both clusters are in one family
SameFamily(masterVersion, slaveVersion) ==
    ClusterVersionGte7(masterVersion) = ClusterVersionGte7(slaveVersion)


-----------------------------------------------------------------------------
(* Response bodies of the master and the rewrite of lines 306-319.           *)

\* utils.GetValueFromMapByPath: the value under a dotted path, nil when a
\* step of the path is missing
RECURSIVE GetValueFromMapByPath(_, _)
GetValueFromMapByPath(j, path) ==
    IF path = <<>> THEN j
    ELSE IF ~Has(j, Head(path)) THEN JNull
    ELSE GetValueFromMapByPath(j.f[Head(path)], Tail(path))

\* utils.SetValueFromMapByPath: stores the value under a dotted path, making
\* the objects on the way
RECURSIVE SetValueFromMapByPath(_, _, _)
SetValueFromMapByPath(j, path, value) ==
    IF path = <<>> THEN value
    ELSE LET base == IF IsObj(j) THEN j ELSE JObj(<<>>)
             next == IF Has(base, Head(path)) THEN base.f[Head(path)] ELSE JNull
         IN  With(base, Head(path), SetValueFromMapByPath(next, Tail(path), value))

\* a search response: {"took": 3, "hits": {"total": total}}
SearchResponse(total) ==
    JObj([took |-> JNum(3), hits |-> JObj([total |-> total])])

Total_typed    == JNum(42)
Total_typeless == JObj([value |-> JNum(42), relation |-> JStr("eq")])

\* {"acknowledged": "true"}: the answer to a write
Resp_ack == JObj([acknowledged |-> JStr("true")])

\* what the master may answer with: a search response in the shape of its
\* family, an acknowledgement, no bytes, or a JSON array
MasterBodies(masterVersion) ==
    {SearchResponse(IF ClusterVersionGte7(masterVersion)
                    THEN Total_typeless ELSE Total_typed),
     Resp_ack, NoBody, JArr}

\* lines 306-319 applied to bodyMap
rewriteHitsTotal(bodyMap, masterIsSource, statusCode, masterGte7, sourceGte7) ==
    IF ~masterIsSource /\ statusCode = 200
    THEN LET b1 == IF masterGte7 /\ ~sourceGte7
                   THEN SetValueFromMapByPath(bodyMap, <<"hit", "total">>,
                            GetValueFromMapByPath(bodyMap, <<"hits", "total", "value">>))
                   ELSE bodyMap
         IN  IF ~masterGte7 /\ sourceGte7
             THEN SetValueFromMapByPath(b1, <<"hit", "total">>,
                      JObj([value    |-> GetValueFromMapByPath(b1, <<"hits", "total">>),
                            relation |-> JStr("eq")]))
             ELSE b1
    ELSE bodyMap

\* gin.H{"message": err.Error()}
ErrorMessage == JObj([message |-> JStr("error")])

-----------------------------------------------------------------------------
(* ESGateway.onHandler for one request.                                      *)
(*                                                                           *)
(* utils.GoRecovery runs the slave block with a recover(); whether it runs   *)
(* it on the handler's goroutine or on a new one is not decided by this      *)
(* file, so goAsync is an input: when FALSE the master part starts after the *)
(* slave block has ended, when TRUE the two interleave.                      *)
(* c.Request.Body is a reader: whoever reads it leaves it at EOF (NoBody).   *)

GatewayRequests ==
    [masterVersion  : ClusterVersions,
     slaveVersion   : ClusterVersions,
     masterIsSource : BOOLEAN,
     goAsync        : BOOLEAN,
     method         : HttpActions,
     path           : UriPaths,
     reqBody        : RequestBodies]

NoRequestSent == [uri |-> <<>>, body |-> NoBody]

NewHandlerState(req) ==
    [pc             |-> "on",
     masterVersion  |-> req.masterVersion,
     slaveVersion   |-> req.slaveVersion,
     masterIsSource |-> req.masterIsSource,
     goAsync        |-> req.goAsync,
     method         |-> req.method,
     path           |-> req.path,
     clientBody     |-> req.reqBody,
     reqBody        |-> req.reqBody,
     spc            |-> "parse",
     slaveRead      |-> NoBody,
     mpc            |-> "proxy",
     slaveForwards  |-> 0,
     slaveReq       |-> NoRequestSent,
     masterForwards |-> 0,
     masterReq      |-> NoRequestSent,
     masterStatus   |-> 0,
     masterBodyIsObject |-> FALSE,
     masterBody     |-> NoBody,
     responses      |-> 0,
     status         |-> 0,
     respBody       |-> NoBody]

\* lines 260-270: classify for the slave; leave unless the action is mutating
\* and the URI parsed; then modifyMappings up to io.ReadAll
SlaveParse ==
    /\ gw.pc = "on"
    /\ gw.spc = "parse"
    /\ LET r == parseUriPath(gw.method, gw.path, gw.slaveVersion)
       IN  IF r.panic \/ r.RequestAction \notin MutatingActions \/ r.err # None
           THEN gw' = [gw EXCEPT !.spc = "done"]
           ELSE IF SameFamily(gw.masterVersion, gw.slaveVersion)
           THEN gw' = [gw EXCEPT !.spc = "proxy"]
           ELSE gw' = [gw EXCEPT !.spc = "rewrite",
                                 !.slaveRead = gw.reqBody,
                                 !.reqBody = NoBody]
    /\ UNCHANGED bulkVars

\* lines 345-390 and 272-275: an error or a panic ends the slave block
SlaveRewrite ==
    /\ gw.pc = "on"
    /\ gw.spc = "rewrite"
    /\ \E typeName \in (IF Has(gw.slaveRead, "mappings") /\ IsObj(gw.slaveRead.f["mappings"])
                        THEN TypeNames(gw.slaveRead.f["mappings"])
                        ELSE {""}) :
          LET res == rewriteMappings(gw.slaveRead, typeName)
          IN  IF res.err # None \/ res.panic
              THEN gw' = [gw EXCEPT !.spc = "done"]
              ELSE gw' = [gw EXCEPT !.spc = "proxy", !.reqBody = res.body]
    /\ UNCHANGED bulkVars

\* ESGateway.proxy: the request that is sent carries what c.Request.Body
\* still holds; the transport reads it
proxy(uriParserResult, requestBody) ==
    [uri |-> uriParserResult.Uri, body |-> requestBody]

\* line 277: the forward to the slave; its result is only logged
SlaveProxy ==
    /\ gw.pc = "on"
    /\ gw.spc = "proxy"
    /\ LET r == parseUriPath(gw.method, gw.path, gw.slaveVersion)
       IN  gw' = [gw EXCEPT !.spc = "done",
                            !.slaveForwards = @ + 1,
                            !.slaveReq = proxy(r, gw.reqBody),
                            !.reqBody = NoBody]
    /\ UNCHANGED bulkVars

MasterMayRun == gw.goAsync \/ gw.spc = "done"

\* lines 283-296: classify for the master and forward; a transport error is
\* answered with 500.  A panic of the classifier reaches gin's Recovery,
\* which answers 500.  After an error of the classifier the handler returns
\* without writing: gin answers for its NoRoute handler with 404.
MasterProxy ==
    /\ gw.pc = "on"
    /\ gw.mpc = "proxy"
    /\ MasterMayRun
    /\ LET r == parseUriPath(gw.method, gw.path, gw.masterVersion)
       IN  IF r.panic
           THEN gw' = [gw EXCEPT !.mpc = "done", !.responses = @ + 1, !.status = 500]
           ELSE IF r.err # None
           THEN gw' = [gw EXCEPT !.mpc = "done", !.responses = @ + 1, !.status = 404]
           ELSE \E transportOk \in BOOLEAN, statusCode \in {200, 404},
                   body \in MasterBodies(gw.masterVersion) :
                   IF transportOk
                   THEN gw' = [gw EXCEPT !.mpc = "respond",
                                         !.masterForwards = @ + 1,
                                         !.masterReq = proxy(r, gw.reqBody),
                                         !.reqBody = NoBody,
                                         !.masterStatus = statusCode,
                                         !.masterBodyIsObject = IsObj(body),
                                         !.masterBody = body]
                   ELSE /\ statusCode = 200 /\ body = NoBody
                        /\ gw' = [gw EXCEPT !.mpc = "done",
                                            !.masterForwards = @ + 1,
                                            !.masterReq = proxy(r, gw.reqBody),
                                            !.reqBody = NoBody,
                                            !.responses = @ + 1,
                                            !.status = 500,
                                            !.respBody = ErrorMessage]
    /\ UNCHANGED bulkVars

\* the cluster gateway.SourceES names: the master, or else the slave
SourceVersion == IF gw.masterIsSource THEN gw.masterVersion ELSE gw.slaveVersion

\* lines 298-321: the master's status is returned with the body after the
\* rewrite of lines 306-319; the type assertion of line 304 panics when the
\* body is not a JSON object (gin's Recovery: 500, no body)
MasterRespond ==
    /\ gw.pc = "on"
    /\ gw.mpc = "respond"
    /\ IF gw.masterBodyIsObject
       THEN gw' = [gw EXCEPT !.mpc = "done",
                             !.responses = @ + 1,
                             !.status = gw.masterStatus,
                             !.respBody =
                                 rewriteHitsTotal(gw.masterBody, gw.masterIsSource,
                                                  gw.masterStatus,
                                                  ClusterVersionGte7(gw.masterVersion),
                                                  ClusterVersionGte7(SourceVersion))]
       ELSE gw' = [gw EXCEPT !.mpc = "done", !.responses = @ + 1, !.status = 500]
    /\ UNCHANGED bulkVars

InitGateway ==
    /\ m = NewBulkMigratorWithES
    /\ pc = "gateway"
    /\ op = "NewBulkMigratorWithES"
    /\ steps = 0
    /\ arg = NoArg
    /\ ret = NoResult
    /\ ignoreSystemIndex = TRUE
    /\ stage = EmptyMap
    /\ startCount = EmptyMap
    /\ outcome = EmptyMap
    /\ loaded = EmptyMap
    /\ finishCount = 0
    /\ log = <<>>
    /\ diffMap = {}
    /\ migrators = EmptyMap
    /\ \E req \in GatewayRequests : gw = NewHandlerState(req)
    /\ v6 = NoAdapter

NextGateway ==
    \/ SlaveParse
    \/ SlaveRewrite
    \/ SlaveProxy
    \/ MasterProxy
    \/ MasterRespond

SpecGateway == InitGateway /\ [][NextGateway]_vars

\* the handler and the slave block have both ended
HandlerDone == gw.pc = "on" /\ gw.spc = "done" /\ gw.mpc = "done"

\* the action the classifier gives the request
ClassifiedAction == parseUriPath(gw.method, gw.path, gw.masterVersion).RequestAction

\* the classifier accepts the URI
UriParses ==
    LET r == parseUriPath(gw.method, gw.path, gw.masterVersion)
    IN  ~r.panic /\ r.err = None

VersionSkew == ~SameFamily(gw.masterVersion, gw.slaveVersion)


-----------------------------------------------------------------------------
(* Properties of the builder (specification Spec) *)

NumericFields ==
    {"Parallelism", "ScrollSize", "ScrollTime", "SliceSize", "BufferCount",
     "WriteParallel", "WriteSize", "CompareParallel"}

FramedFields ==
    NumericFields \cup {"Ids", "IndexPairMap", "SourceES", "TargetES"}

\* the field each builder step names
NamedField ==
    [WithIndexPairs         |-> "IndexPairMap",
     WithPatternIndexes     |-> "IndexPairMap",
     WithParallelism        |-> "Parallelism",
     WithScrollSize         |-> "ScrollSize",
     WithScrollTime         |-> "ScrollTime",
     WithSliceSize          |-> "SliceSize",
     WithBufferCount        |-> "BufferCount",
     WithWriteParallel      |-> "WriteParallel",
     WithWriteSize          |-> "WriteSize",
     WithIds                |-> "Ids",
     WithCompareParallelism |-> "CompareParallel"]

BuilderOps == DOMAIN NamedField

\* this step is a call of a builder method
IsBuilderStep == pc = "build" /\ pc' = "build" /\ steps' = steps + 1

\* this step is the call of a terminal operation
IsTerminalCall == pc = "build" /\ pc' # "build"

\* C1: a builder step called on a configuration with no latched error changes
\* no field but the one it names: every other field of the result equals its
\* value in the receiver.
C1_FrameOfBuilderStep ==
    [][(IsBuilderStep /\ m.Error = None)
         => \A f \in FramedFields \ {NamedField[op']} : m'[f] = m[f]]_vars

\* C2: in every configuration reachable from NewBulkMigratorWithES by builder
\* steps with any arguments, 0 included, every numeric option is non-zero.
C2_NumericOptionsNonZero ==
    pc \in {"build", "run", "done"} => \A f \in NumericFields : m[f] # 0

\* C3: once Error is set, every later builder step returns the receiver
\* unchanged, and the first terminal operation called returns that error and
\* starts no index pair.
C3_ErrorLatched ==
    [][/\ (IsBuilderStep /\ m.Error # None) => m' = m
       /\ (IsTerminalCall /\ m.Error # None)
             => /\ pc' = "done"
                /\ ret'.err = m.Error
                /\ m' = m
                /\ stage' = EmptyMap
                /\ startCount' = EmptyMap
                /\ finishCount' = 0]_vars

\* a terminal operation has returned the error latched by WithPatternIndexes
\* at the end of a chain of builder steps, and no task exists
C3_Witness ==
    /\ pc = "done"
    /\ op \in TerminalOps
    /\ steps >= 2
    /\ m.Error = "error parsing regexp"
    /\ ret.err = m.Error
    /\ stage = EmptyMap

Range(seq) == {seq[i] : i \in 1..Len(seq)}

\* the literal "source:target" of a pair
Identity(pair) == pair.SourceIndex \o <<":">> \o pair.TargetIndex

\* C4: every key of IndexPairMap is the "source:target" string of the pair
\* stored under it; WithIndexPairs stores exactly one entry per identity it is
\* given, however often the pair is given; and no step loses or replaces a
\* pair stored by an earlier step.
C4_PairsUniqueByIdentity ==
    [][/\ \A k \in DOMAIN m'.IndexPairMap : k = Identity(m'.IndexPairMap[k])
       /\ \A k \in DOMAIN m.IndexPairMap :
             /\ k \in DOMAIN m'.IndexPairMap
             /\ m'.IndexPairMap[k] = m.IndexPairMap[k]
       /\ (IsBuilderStep /\ m.Error = None /\ op' = "WithIndexPairs")
             => /\ DOMAIN m'.IndexPairMap =
                       (DOMAIN m.IndexPairMap) \cup {Identity(p) : p \in Range(arg')}
                /\ \A p \in Range(arg') : m'.IndexPairMap[Identity(p)] = p]_vars

\* WithIndexPairs was given the same pair twice in one call, on a map that
\* already held another pair: both are stored, each once
C4_Witness ==
    /\ op = "WithIndexPairs"
    /\ Len(arg) = 2
    /\ arg[1] = arg[2]
    /\ Cardinality(DOMAIN m.IndexPairMap) = 2
    /\ Identity(arg[1]) \in DOMAIN m.IndexPairMap

\* what the spec's scenario resolves each valid pattern to, over the
\* catalogue {logs-1, logs-2, .system}
ExpectedResolution(pattern, ignoreSystem) ==
    IF pattern = Pat_logs THEN {Str_logs1, Str_logs2}
    ELSE IF pattern = Pat_two THEN {Str_logs2}
    ELSE IF ignoreSystem THEN {Str_logs1, Str_logs2}
    ELSE {Str_logs1, Str_logs2, Str_system}

\* C5: a WithPatternIndexes(p) that succeeds adds the pair (i, i) for exactly
\* the catalogue's indexes p matches; with the ignore-system-index flag set no
\* index starting with "." is added; "logs-.*" and ".*" both resolve to
\* {logs-1, logs-2} under the flag.
C5_PatternResolution ==
    [][(IsBuilderStep /\ m.Error = None /\ op' = "WithPatternIndexes" /\ m'.Error = None)
         => /\ DOMAIN m'.IndexPairMap =
                   (DOMAIN m.IndexPairMap)
                       \cup {Identity(IndexPair(i, i)) :
                                i \in ExpectedResolution(arg', ignoreSystemIndex)}
            /\ \A i \in ExpectedResolution(arg', ignoreSystemIndex) :
                   m'.IndexPairMap[Identity(IndexPair(i, i))] = IndexPair(i, i)
            /\ ignoreSystemIndex
                 => \A k \in (DOMAIN m'.IndexPairMap) \ (DOMAIN m.IndexPairMap) :
                        ~HasPrefix(m'.IndexPairMap[k].SourceIndex, <<".">>)]_vars

\* ".*" was resolved under the flag: logs-1 and logs-2 are paired, .system is not
C5_Witness ==
    /\ op = "WithPatternIndexes"
    /\ arg = Pat_all
    /\ ignoreSystemIndex
    /\ m.Error = None
    /\ DOMAIN m.IndexPairMap =
           {Identity(IndexPair(Str_logs1, Str_logs1)), Identity(IndexPair(Str_logs2, Str_logs2))}

-----------------------------------------------------------------------------
(* Properties of the pool (specification SpecRun) *)

\* C6: the number of per-pair callbacks executing at once never exceeds the
\* configured Parallelism.
C6_BoundedConcurrency ==
    pc = "run" => Cardinality(Running) <= m.Parallelism

\* the pool is saturated: Parallelism callbacks execute while a task waits
C6_Witness ==
    /\ pc = "run"
    /\ Cardinality(Running) = m.Parallelism
    /\ \E k \in DOMAIN stage : stage[k] = "queued"

\* C7: in one terminal operation the callback of every identity of
\* IndexPairMap is started exactly once, whatever the other pairs yield; the
\* operation returns after every callback has finished; Sync and
\* CopyIndexSettings return nil even when pairs failed.
C7_EveryPairRunsOnce ==
    /\ \A k \in DOMAIN startCount : startCount[k] <= 1
    /\ (pc = "done" /\ m.Error = None)
          => /\ DOMAIN startCount = DOMAIN m.IndexPairMap
             /\ \A k \in DOMAIN m.IndexPairMap :
                   /\ startCount[k] = 1
                   /\ stage[k] = "done"
                   /\ outcome[k] # "pending"
             /\ op \in {"Sync", "CopyIndexSettings"} => ret.err = None

\* Sync has returned after one pair failed and another succeeded
C7_Witness ==
    /\ pc = "done"
    /\ op = "Sync"
    /\ ret.err = None
    /\ \E k1, k2 \in DOMAIN outcome : outcome[k1] = "err" /\ outcome[k2] = "ok"

\* C8: in emission order the finished count of the "task progress" entries
\* never decreases, the ratio and the count of one entry describe the same
\* finished value, and the last entry reports finished = total = number of
\* pairs.
C8_ProgressMonotone ==
    /\ \A i \in 1..(Len(log) - 1) : log[i].finished <= log[i + 1].finished
    /\ \A i \in 1..Len(log) : log[i].ratio = <<log[i].finished, log[i].total>>
    /\ (pc = "done" /\ log # <<>>)
          => /\ log[Len(log)].finished = log[Len(log)].total
             /\ log[Len(log)].total = Cardinality(DOMAIN m.IndexPairMap)

-----------------------------------------------------------------------------
(* Properties of the gateway (specification SpecGateway) *)

\* C9: a request whose URI the classifier accepts is forwarded to the master
\* exactly once, and to the slave, at most once, if and only if its classified
\* action is mutating.
C9_Routing ==
    (HandlerDone /\ UriParses)
        => /\ gw.masterForwards = 1
           /\ gw.slaveForwards <= 1
           /\ (gw.slaveForwards = 1) <=> (ClassifiedAction \in MutatingActions)

\* C10: when master and slave are in different version families every
\* mutating request is forwarded to the slave, also when its body has no
\* "mappings" object.
C10_MirroredAcrossSkew ==
    (HandlerDone /\ UriParses /\ VersionSkew /\ ClassifiedAction \in MutatingActions)
        => gw.slaveForwards = 1

\* the paths "/index/type/id/<verb>" and "/index/id/<verb>"
DocumentVerbPaths(verb) ==
    {Path(<<Seg_i, Seg_t, Seg_1, verb>>), Path(<<Seg_i, Seg_1, verb>>)}

\* C11: a POST whose path ends in "/_create" (or "/_update"), with the index
\* and the document id before it, is classified as create-document (or
\* update-document) with Index and DocumentId taken from the path; the request
\* is therefore mutating, and it is forwarded to the slave.
C11_CreateUpdateClassified ==
    \A verb \in {Seg_create, Seg_update} :
        (gw.pc = "on" /\ gw.method = "POST" /\ gw.path \in DocumentVerbPaths(verb))
            => LET r == parseUriPath(gw.method, gw.path, gw.masterVersion)
               IN  /\ ~r.panic
                   /\ r.err = None
                   /\ r.RequestAction =
                          (IF verb = Seg_create THEN "CreateDocument" ELSE "UpdateDocument")
                   /\ r.Index = Seg_i
                   /\ r.DocumentId = Seg_1
                   /\ r.RequestAction \in MutatingActions
                   /\ (HandlerDone /\ ~VersionSkew) => gw.slaveForwards = 1

\* the master answered with a JSON object and the handler has returned it
MasterAnswered ==
    /\ gw.pc = "on"
    /\ gw.mpc = "done"
    /\ gw.masterForwards = 1
    /\ gw.masterBodyIsObject
    /\ gw.responses = 1

\* a GET search answered with 200 by a master that is not the source cluster
\* and is in the other version family
SearchAcrossFamilies ==
    /\ ClassifiedAction = "Search"
    /\ VersionSkew
    /\ ~gw.masterIsSource
    /\ gw.masterStatus = 200

\* hits.total in the other family's shape: {value, relation} becomes its
\* value, an integer becomes {value, relation: "eq"}; every other key is kept
ConvertedTotal(body) ==
    IF Has(body, "hits") /\ Has(body.f["hits"], "total")
    THEN LET total == body.f["hits"].f["total"]
         IN  With(body, "hits",
                  With(body.f["hits"], "total",
                       IF IsObj(total)
                       THEN total.f["value"]
                       ELSE JObj([value |-> total, relation |-> JStr("eq")])))
    ELSE body

\* C12: the body returned to the client is the master's body, except for a
\* GET search answered with 200 across version families, where hits.total is
\* converted between integer and {value, relation} and every other key is
\* unchanged.
C12_HitsTotalRewrite ==
    MasterAnswered
        => gw.respBody = IF SearchAcrossFamilies
                         THEN ConvertedTotal(gw.masterBody)
                         ELSE gw.masterBody

\* the body is a mapping payload in the shape of the family: typeless
\* {"mappings": {"properties": P, ...}}, typed {"mappings": {T: {"properties": P, ...}}}
ShapeOfFamily(body, typeless) ==
    /\ Has(body, "mappings")
    /\ IsObj(body.f["mappings"])
    /\ LET mappings == body.f["mappings"]
       IN  IF typeless
           THEN Has(mappings, "properties")
           ELSE /\ Cardinality(DOMAIN mappings.f) = 1
                /\ \A T \in DOMAIN mappings.f :
                      T # "properties" /\ Has(mappings.f[T], "properties")

\* the Settings Translator's result: the keys of the one type moved to the
\* top level, or the typeless mapping wrapped as "_doc"
TranslatedMappings(body, typeless) ==
    LET mappings == body.f["mappings"]
    IN  IF typeless
        THEN With(body, "mappings", JObj([_doc |-> mappings]))
        ELSE With(body, "mappings",
                  mappings.f[CHOOSE T \in DOMAIN mappings.f : TRUE])

\* the "properties" of a mapping payload of either shape
PropertiesOf(body) ==
    LET mappings == body.f["mappings"]
    IN  IF Has(mappings, "properties")
        THEN mappings.f["properties"]
        ELSE mappings.f[CHOOSE T \in DOMAIN mappings.f : TRUE].f["properties"]

\* C13: across version families the body forwarded to the slave is the
\* Settings Translator's rewrite of the client's mapping payload: a typed
\* {T: {properties: P, ...}} becomes {properties: P, ...} with the other
\* per-type keys kept at the top level, a typeless {properties: P, ...} is
\* wrapped as {"_doc": {properties: P, ...}}, and rewriting the result back
\* preserves P; within one family the body is passed through unchanged.
C13_MappingRewrite ==
    [][/\ (/\ gw.spc = "rewrite"
           /\ gw'.spc # "rewrite"
           /\ ShapeOfFamily(gw.slaveRead, ClusterVersionGte7(gw.masterVersion)))
             => /\ gw'.spc = "proxy"
                /\ gw'.reqBody =
                       TranslatedMappings(gw.slaveRead, ClusterVersionGte7(gw.masterVersion))
                /\ \A typeName \in TypeNames(gw'.reqBody.f["mappings"]) :
                       LET back == rewriteMappings(gw'.reqBody, typeName)
                       IN  /\ back.err = None
                           /\ ~back.panic
                           /\ PropertiesOf(back.body) = PropertiesOf(gw.slaveRead)
       /\ (gw.spc = "parse" /\ gw'.spc = "proxy") => gw'.reqBody = gw.reqBody]_vars

-----------------------------------------------------------------------------
(* The typed adapter V6: BulkBody and the operations that answer by the      *)
(* HTTP status.  The buffer is the sequence of the lines written to it, each *)
(* line the JSON value json.Marshal was given.                               *)

MaxBulkDocs == 2

OperationCreate  == "create"
OperationUpdate  == "update"
OperationDelete  == "delete"
OperationUnknown == "same"

\* the sources of the documents: {} and {"title": "a"}
Sources == {JObj(<<>>), Body_document}

\* es.Doc values handed to BulkBody
Docs ==
    [Op     : {OperationCreate, OperationUpdate, OperationDelete, OperationUnknown},
     ID     : {Seg_1},
     Type   : {"book"},
     Source : Sources]

NoDoc == [Op |-> "none"]

\* len(body): the number of keys of the map; 0 for the nil map
LenOfMap(body) == IF IsObj(body) THEN Cardinality(DOMAIN body.f) ELSE 0

\* V6.BulkBody: [err, buf] for the buffer after the call
BulkBody(index, buf, doc) ==
    LET action == IF doc.Op = OperationCreate THEN "index"
                  ELSE IF doc.Op = OperationUpdate THEN "update"
                  ELSE IF doc.Op = OperationDelete THEN "delete"
                  ELSE ""
        body   == IF doc.Op = OperationCreate THEN doc.Source
                  ELSE IF doc.Op = OperationUpdate
                  THEN JObj(doc.Type :> doc.Source)
                  ELSE JNull
        meta   == JObj(action :> JObj([_index |-> JStr(index),
                                       _id    |-> JStr(doc.ID),
                                       _type  |-> JStr(doc.Type)]))
    IN  IF action = ""
        THEN [err |-> "unknow action", buf |-> buf]
        ELSE [err |-> None,
              buf |-> IF LenOfMap(body) > 0
                      THEN buf \o <<meta, body>>
                      ELSE buf \o <<meta>>]

HttpStatusCodes == {200, 201, 404, 500}

\* "if res.StatusCode != http.StatusOK { return formatError(res) }"
StatusError(statusCode) == IF statusCode # 200 THEN "formatError" ELSE None

\* Bulk, CreateIndex, DeleteIndex: [err] by transport result and status
StatusOperation(transportOk, statusCode) ==
    IF ~transportOk THEN "transport" ELSE StatusError(statusCode)

\* V6.IndexExisted: [existed, err]
IndexExisted(transportOk, statusCode) ==
    IF ~transportOk THEN [existed |-> FALSE, err |-> "transport"]
    ELSE IF statusCode = 404 THEN [existed |-> FALSE, err |-> None]
    ELSE IF StatusError(statusCode) # None
    THEN [existed |-> FALSE, err |-> StatusError(statusCode)]
    ELSE [existed |-> statusCode = 200, err |-> None]

NewAdapterState ==
    [pc          |-> "on",
     call        |-> "NewESV6",
     buf         |-> <<>>,
     docs        |-> 0,
     doc         |-> NoDoc,
     transportOk |-> TRUE,
     statusCode  |-> 0,
     existed     |-> FALSE,
     err         |-> None]

gatewayVars == <<m, pc, op, steps, arg, ret, ignoreSystemIndex, stage, startCount,
                 outcome, finishCount, loaded, log, diffMap, migrators, gw>>

\* one call of BulkBody on the writer's buffer
V6BulkBody ==
    /\ v6.pc = "on"
    /\ v6.docs < MaxBulkDocs
    /\ \E doc \in Docs :
          LET res == BulkBody(Seg_i, v6.buf, doc)
          IN  v6' = [v6 EXCEPT !.call = "BulkBody",
                               !.doc  = doc,
                               !.docs = @ + 1,
                               !.buf  = res.buf,
                               !.err  = res.err]
    /\ UNCHANGED gatewayVars

\* one call of an operation that answers by the status alone
V6StatusCall(name) ==
    /\ v6.pc = "on"
    /\ \E transportOk \in BOOLEAN, statusCode \in HttpStatusCodes :
          /\ ~transportOk => statusCode = 500
          /\ v6' = [v6 EXCEPT !.call = name,
                              !.doc  = NoDoc,
                              !.transportOk = transportOk,
                              !.statusCode  = statusCode,
                              !.existed     = FALSE,
                              !.err  = StatusOperation(transportOk, statusCode)]
    /\ UNCHANGED gatewayVars

V6Bulk        == V6StatusCall("Bulk")
V6CreateIndex == V6StatusCall("CreateIndex")
V6DeleteIndex == V6StatusCall("DeleteIndex")

V6IndexExisted ==
    /\ v6.pc = "on"
    /\ \E transportOk \in BOOLEAN, statusCode \in HttpStatusCodes :
          /\ ~transportOk => statusCode = 500
          /\ LET res == IndexExisted(transportOk, statusCode)
             IN  v6' = [v6 EXCEPT !.call = "IndexExisted",
                                  !.doc  = NoDoc,
                                  !.transportOk = transportOk,
                                  !.statusCode  = statusCode,
                                  !.existed     = res.existed,
                                  !.err  = res.err]
    /\ UNCHANGED gatewayVars

InitAdapter ==
    /\ m = NewBulkMigratorWithES
    /\ pc = "adapter"
    /\ op = "NewBulkMigratorWithES"
    /\ steps = 0
    /\ arg = NoArg
    /\ ret = NoResult
    /\ ignoreSystemIndex = TRUE
    /\ stage = EmptyMap
    /\ startCount = EmptyMap
    /\ outcome = EmptyMap
    /\ loaded = EmptyMap
    /\ finishCount = 0
    /\ log = <<>>
    /\ diffMap = {}
    /\ migrators = EmptyMap
    /\ gw = NoGateway
    /\ v6 = NewAdapterState

NextAdapter ==
    \/ V6BulkBody
    \/ V6Bulk
    \/ V6CreateIndex
    \/ V6DeleteIndex
    \/ V6IndexExisted

SpecAdapter == InitAdapter /\ [][NextAdapter]_vars

-----------------------------------------------------------------------------
(* Properties of the typed adapter (specification SpecAdapter) *)

\* the metadata line {action: {"_index", "_id", "_type"}} of a document
MetadataLine(action, index, doc) ==
    JObj(action :> JObj([_index |-> JStr(index),
                         _id    |-> JStr(doc.ID),
                         _type  |-> JStr(doc.Type)]))

\* the line wraps the source: an object of one key whose value is the source
WrapsSource(line, source) ==
    /\ IsObj(line)
    /\ Cardinality(DOMAIN line.f) = 1
    /\ \A k \in DOMAIN line.f : line.f[k] = source

\* C14: BulkBody appends exactly one bulk action to the buffer: for create the
\* metadata line {"index": {_index, _id, _type}} and one body line holding the
\* source; for update the metadata line "update" and one body line wrapping
\* the source; for delete the metadata line "delete" and no body line; for
\* every document, the one with the empty object as source included.  For an
\* unknown operation it returns an error and leaves the buffer unchanged.
C14_BulkBodyAppendsOneAction ==
    [][(v6.pc = "on" /\ v6'.call = "BulkBody" /\ v6'.docs = v6.docs + 1)
         => LET doc   == v6'.doc
                added == SubSeq(v6'.buf, Len(v6.buf) + 1, Len(v6'.buf))
            IN  /\ SubSeq(v6'.buf, 1, Len(v6.buf)) = v6.buf
                /\ doc.Op = OperationCreate
                     => /\ v6'.err = None
                        /\ added = <<MetadataLine("index", Seg_i, doc), doc.Source>>
                /\ doc.Op = OperationUpdate
                     => /\ v6'.err = None
                        /\ Len(added) = 2
                        /\ added[1] = MetadataLine("update", Seg_i, doc)
                        /\ WrapsSource(added[2], doc.Source)
                /\ doc.Op = OperationDelete
                     => /\ v6'.err = None
                        /\ added = <<MetadataLine("delete", Seg_i, doc)>>
                /\ doc.Op \notin {OperationCreate, OperationUpdate, OperationDelete}
                     => /\ v6'.err # None
                        /\ v6'.buf = v6.buf]_vars

\* the status is in the 2xx class
Is2xx(statusCode) == statusCode \in 200..299

\* C15: every adapter operation returns an error if and only if the transport
\* failed or the HTTP status is not 2xx, so 200 and 201 alike are success;
\* exists(index) answers a 404 with false and no error.
C15_ErrorIffNot2xx ==
    (v6.pc = "on" /\ v6.call \in {"Bulk", "CreateIndex", "DeleteIndex", "IndexExisted"})
        => IF v6.call = "IndexExisted" /\ v6.transportOk /\ v6.statusCode = 404
           THEN v6.err = None /\ ~v6.existed
           ELSE (v6.err # None) <=> (~v6.transportOk \/ ~Is2xx(v6.statusCode))

\* C16: the body the master receives for a mirrored mutating request is the
\* body the client sent: the forward to the slave, the mapping rewrite
\* included, neither consumes nor alters it, in every order of the two
\* forwards.
C16_MasterReceivesClientBody ==
    (gw.pc = "on" /\ gw.slaveForwards = 1 /\ gw.masterForwards = 1 /\ gw.masterStatus # 0)
        => gw.masterReq.body = gw.clientBody

\* the options the bulk orchestrator hands to the Migrator of each pair
PropagatedOptions ==
    {"ScrollSize", "ScrollTime", "SliceSize", "BufferCount", "WriteParallel",
     "WriteSize", "Ids", "CompareParallel"}

\* every numeric option of the orchestrator holds a configured, non-zero value
OptionsConfigured == \A f \in NumericFields : m[f] # 0

\* C17: every option configured on the bulk orchestrator reaches the Migrator
\* parallelRun builds for each pair: ScrollSize, ScrollTime, SliceSize,
\* BufferCount, WriteParallel, WriteSize, Ids and CompareParallel, so the
\* value set by WithCompareParallelism is the number of diff workers of every
\* pair's Compare and SyncDiff.
C17_OptionsReachEveryMigrator ==
    (pc = "run" /\ OptionsConfigured)
        => /\ DOMAIN migrators = DOMAIN m.IndexPairMap
           /\ \A k \in DOMAIN m.IndexPairMap :
                 /\ migrators[k].IndexPair = m.IndexPairMap[k]
                 /\ \A f \in PropagatedOptions : migrators[k][f] = m[f]

\* C18: when no error is latched, Compare and SyncDiff return a nil error and
\* a map whose keys are identities of IndexPairMap, with an entry for an
\* identity exactly when the per-pair operation of that pair succeeded and its
\* DiffResult has a difference, in whatever order the workers finish.
C18_DiffMapOfSucceededPairs ==
    (pc = "done" /\ op \in DiffOps /\ m.Error = None)
        => /\ ret.err = None
           /\ ret.result \subseteq DOMAIN m.IndexPairMap
           /\ \A k \in DOMAIN m.IndexPairMap :
                 (k \in ret.result) <=> (outcome[k] = "diff")

\* Compare has returned, after both tasks logged their progress, the one pair
\* with a difference; the other pair failed or had no difference
C18_Witness ==
    /\ pc = "done"
    /\ op = "Compare"
    /\ m.Error = None
    /\ \E k1, k2 \in DOMAIN m.IndexPairMap :
          /\ outcome[k1] = "diff"
          /\ outcome[k2] \in {"err", "nodiff"}
          /\ ret.result = {k1}
          /\ Len(log) = 2

\* what the master's forward alone determines as the response: 500 with the
\* error message when the forward failed, else the master's status
ResponseOfMaster ==
    IF gw.masterStatus = 0
    THEN [status |-> 500, body |-> ErrorMessage]
    ELSE [status |-> gw.masterStatus, body |-> gw.masterBody]

\* C19: for every request the classifier accepts the handler sends exactly
\* one response, also when the master's response body is empty or not a JSON
\* object; a failed master forward yields 500 with the error message, and
\* otherwise the status returned is the master's; nothing the slave block
\* does changes it.
C19_OneResponseFromMaster ==
    (HandlerDone /\ UriParses)
        => /\ gw.responses = 1
           /\ gw.masterForwards = 1
           /\ gw.status = ResponseOfMaster.status
           /\ gw.masterStatus = 0 => gw.respBody = ErrorMessage

====
